---- MODULE Spec2Model ----
(***************************************************************************)
(* Model of the stock dashboard (src/streamlit.py): the cached fetch       *)
(* fetch_stock_data under @st.cache_data(ttl=300), the metrics function    *)
(* calculate_metrics, and the script body main() as run by concurrent      *)
(* browser sessions that share one process-wide cache.                     *)
(*                                                                         *)
(* Python values are represented as follows.                               *)
(*   str            a sequence of one-character strings                    *)
(*   None (object)  NoneDF, a record without index/data                    *)
(*   DataFrame      [py, index, data]: data maps a column name to its      *)
(*                  sequence of cells; index is the sequence of row labels *)
(*   float          an integer, or a pair <<num, den>> for a quotient;     *)
(*                  NaN is the pair <<0, 0>>; a scalar None is << >>       *)
(***************************************************************************)
EXTENDS Integers, Sequences, FiniteSets, TLC

VARIABLES
    API_KEY,      \* module global read from the environment
    now,          \* the clock the cache's ttl is measured on
    calls,        \* outbound requests issued so far (requests.get)
    runs,         \* script runs started so far
    cur,          \* the cache object the registry holds for fetch_stock_data
    cache,        \* per cache object, the entry table: symbol -> entry
    stored,       \* per cache object, the value object each entry holds
    lock,         \* per cache object, the compute locks: symbol -> holder, 0 when free
    pc,           \* each session's position in main()
    handle,       \* the cache object a session's call in progress took
    symbol,       \* each session's selected symbol
    time_period,  \* each session's selected period
    via,          \* how the run's fetch_stock_data call returned
    ref,          \* the object each session's local name df is bound to
    frames,       \* the DataFrame object each session's run owns
    msgs,         \* st.error / st.warning elements shown by the run's fetch
    metrics,      \* the dict calculate_metrics returned to the session
    held,         \* history: the value fetch_stock_data returned
    clearedFresh  \* history: symbols whose unexpired entry the last clear dropped

vars == <<API_KEY, now, calls, runs, cur, cache, stored, lock, pc, handle, symbol,
          time_period, via, ref, frames, msgs, metrics, held, clearedFresh>>

-----------------------------------------------------------------------------
(* Bounds of the model *)

MaxRuns == 2
MaxTicks == 2

(* Program constants *)

TTL == 300
ROLL_20 == 20
ROLL_50 == 50
CompactSize == 100

\* two browser sessions run the script against the one process-wide cache
Sessions == {1, 2}

\* the clock advances in steps of half the ttl
TickStep == TTL \div 2
MaxTime == MaxTicks * TickStep

-----------------------------------------------------------------------------
(* Strings and numbers *)

Lower == <<"a","b","c","d","e","f","g","h","i","j","k","l","m",
           "n","o","p","q","r","s","t","u","v","w","x","y","z">>
Upper == <<"A","B","C","D","E","F","G","H","I","J","K","L","M",
           "N","O","P","Q","R","S","T","U","V","W","X","Y","Z">>
Digits == <<"0","1","2","3","4","5","6","7","8","9">>

UpperChar(c) ==
    IF \E n \in DOMAIN Lower : Lower[n] = c
    THEN Upper[CHOOSE n \in DOMAIN Lower : Lower[n] = c]
    ELSE c

\* str.upper()
upper(s) == [n \in DOMAIN s |-> UpperChar(s[n])]

IsDigit(c) == \E n \in DOMAIN Digits : Digits[n] = c
DigitVal(c) == (CHOOSE n \in DOMAIN Digits : Digits[n] = c) - 1

\* int(s) / pd.to_numeric(s) accept s when IsNumeric(s)
IsNumeric(s) == Len(s) > 0 /\ \A n \in DOMAIN s : IsDigit(s[n])

RECURSIVE ToNumber(_)
ToNumber(s) ==
    IF Len(s) = 0 THEN 0
    ELSE 10 * ToNumber(SubSeq(s, 1, Len(s) - 1)) + DigitVal(s[Len(s)])

\* the decimal text of a natural number, as the provider writes it
RECURSIVE Str(_)
Str(n) ==
    IF n < 10 THEN <<Digits[n + 1]>>
    ELSE Str(n \div 10) \o <<Digits[(n % 10) + 1]>>

NaN == <<0, 0>>
NoneNum == << >>
isna(x) == x = NaN

\* a sum by halves, so that the depth of evaluation stays logarithmic
RECURSIVE SumSeq(_)
SumSeq(s) ==
    IF Len(s) = 0 THEN 0
    ELSE IF Len(s) = 1 THEN s[1]
    ELSE LET h == Len(s) \div 2
         IN SumSeq(SubSeq(s, 1, h)) + SumSeq(SubSeq(s, h + 1, Len(s)))

MaxSeq(s) == CHOOSE m \in {s[j] : j \in DOMAIN s} : \A j \in DOMAIN s : s[j] <= m

MinSeq(s) == CHOOSE m \in {s[j] : j \in DOMAIN s} : \A j \in DOMAIN s : m <= s[j]

-----------------------------------------------------------------------------
(* Widgets of main() *)

popular_stocks ==
    << <<"A","A","P","L">>, <<"G","O","O","G","L">>, <<"M","S","F","T">>,
       <<"A","M","Z","N">>, <<"T","S","L","A">>, <<"M","E","T","A">>,
       <<"N","V","D","A">>, <<"N","F","L","X">> >>

time_period_options ==
    << << <<"3","0">>, <<"D","a","y","s">> >>,
       << <<"6","0">>, <<"D","a","y","s">> >>,
       << <<"9","0">>, <<"D","a","y","s">> >>,
       << <<"A","l","l">>, <<"A","v","a","i","l","a","b","l","e">> >> >>

AllAvailable == time_period_options[4]

\* the period selectbox (line 187) is read only at line 214; the model draws
\* the selection where it is read and holds Unread until then
Unread == << >>

\* the selectbox positions and text inputs the sessions use
StockChoices == {1, 3}
TextInputs == { << >>, <<"m","s","f","t">> }
PeriodChoices == {1, 4}

\* lines 171-184: the selectbox value, overridden by the upper-cased text
SelectedSymbol(choice, text) ==
    LET custom_symbol == upper(text)
    IN IF custom_symbol # << >> THEN custom_symbol ELSE popular_stocks[choice]

Symbols == {SelectedSymbol(c, t) : c \in StockChoices, t \in TextInputs}

PLACEHOLDER_KEY == "your_api_key_here"
KeyUnset == "<unset>"
EnvKeys == {KeyUnset, PLACEHOLDER_KEY, "demo-key"}

-----------------------------------------------------------------------------
(* DataFrames *)

NoneDF == [py |-> "None"]
BaseColumns == <<"Open", "High", "Low", "Close", "Volume">>

IsNone(x) == x.py = "None"
IsFrame(x) == x.py = "DataFrame"
Rows(df) == Len(df.index)
empty(df) == Rows(df) = 0 \/ DOMAIN df.data = {}

\* df.tail(n): a new frame with the last n rows (all rows when there are fewer)
tail(df, n) ==
    LET len == Rows(df)
        k == IF len > n THEN len - n ELSE 0
    IN [py |-> "DataFrame",
        index |-> SubSeq(df.index, k + 1, len),
        data |-> [c \in DOMAIN df.data |-> SubSeq(df.data[c], k + 1, len)]]

\* rolling(window, min_periods=1): the mean of however many rows there are
rolling_mean_partial(col, window) ==
    [k \in DOMAIN col |->
        IF k < window THEN <<SumSeq(SubSeq(col, 1, k)), k>>
        ELSE <<SumSeq(SubSeq(col, k - window + 1, k)), window>>]

\* Series.rolling(window).mean(): NaN until a full window is available
rolling_mean(col, window) ==
    [k \in DOMAIN col |->
        IF k < window THEN NaN
        ELSE <<SumSeq(SubSeq(col, k - window + 1, k)), window>>]

\* Series.pct_change(): (x[k] - x[k-1]) / x[k-1], NaN in the first row
pct_change(col) ==
    [k \in DOMAIN col |->
        IF k = 1 THEN NaN ELSE <<col[k] - col[k - 1], col[k - 1]>>]

\* df[name] = column: the frame object gains (or overwrites) a column
SetColumn(df, name, col) ==
    [df EXCEPT !.data = (name :> col) @@ df.data]

iloc_last(col) == col[Len(col)]

-----------------------------------------------------------------------------
(* calculate_metrics, lines 68-96 *)

\* lines 77-81: the three assignments into the frame passed in
AddIndicators(df) ==
    LET d1 == SetColumn(df, "MA_20", rolling_mean(df.data["Close"], ROLL_20))
        d2 == SetColumn(d1, "MA_50", rolling_mean(d1.data["Close"], ROLL_50))
    IN SetColumn(d2, "Daily_Return", pct_change(d2.data["Close"]))

\* lines 73-74 and 83-94: the dict (volatility, a standard deviation, has no
\* exact integer or quotient value and is left out of the record)
MetricsDict(df0, df) ==
    LET close == df0.data["Close"]
        latest_price == iloc_last(close)
        previous_price == IF Rows(df0) > 1 THEN close[Len(close) - 1] ELSE latest_price
        last20 == iloc_last(df.data["MA_20"])
        last50 == iloc_last(df.data["MA_50"])
    IN [current_price |-> latest_price,
        daily_change |-> latest_price - previous_price,
        daily_change_pct |-> <<(latest_price - previous_price) * 100, previous_price>>,
        volume |-> iloc_last(df.data["Volume"]),
        high_52w |-> MaxSeq(df.data["High"]),
        low_52w |-> MinSeq(df.data["Low"]),
        avg_volume |-> <<SumSeq(df.data["Volume"]), Rows(df)>>,
        ma_20 |-> IF ~isna(last20) THEN last20 ELSE NoneNum,
        ma_50 |-> IF ~isna(last50) THEN last50 ELSE NoneNum]

\* the call: `df` is the frame object after the call (the argument itself,
\* mutated in place and returned as the second element of the tuple)
calculate_metrics(df) ==
    IF IsNone(df) \/ empty(df)
    THEN [metrics |-> << >>, df |-> df]
    ELSE LET out == AddIndicators(df)
         IN [metrics |-> MetricsDict(df, out), df |-> out]

-----------------------------------------------------------------------------
(* The provider's responses *)

Variants == {1, 2}

\* "YYYY-MM-DD" of the k-th trading day, as <<year, month, day>>
DateKey(k) == <<2024, 1 + ((k - 1) \div 28), 1 + ((k - 1) % 28)>>

\* the values of "1. open" .. "5. volume" of day k, each a numeric string
ProviderRecord(v, k) ==
    LET close == 100 + ((k * (v + 2)) % 11)
    IN <<Str(close - 1), Str(close + 2), Str(close - 3), Str(close),
         Str(1000 + 10 * ((k * 7) % 13))>>

\* the "Time Series (Daily)" object: date -> record, most recent day first
ProviderSeries(len, v) ==
    [n \in 1..len |-> <<DateKey(len - n + 1), ProviderRecord(v, len - n + 1)>>]

\* a series one of whose records carries a non-numeric close
CorruptSeries ==
    [n \in 1..2 |-> <<DateKey(3 - n),
        IF n = 1 THEN <<Str(100), Str(103), Str(98), <<"n","/","a">>, Str(1000)>>
        ELSE ProviderRecord(1, 3 - n)>>]

JsonObject(hasError, hasNote, ts) ==
    (IF hasError THEN "Error Message" :> "Invalid API call." ELSE << >>)
    @@ (IF hasNote THEN "Note" :> "Thank you for using Alpha Vantage!" ELSE << >>)
    @@ (IF ts.present THEN "Time Series (Daily)" :> ts.value ELSE << >>)

Response(transport, body, data) ==
    [transport |-> transport, body |-> body, data |-> data]

\* the series lengths and price paths the provider answers with in Spec
FetchLens == {2}
FetchVariants == {1}

TsOptions(lens, variants) ==
    {[present |-> FALSE, value |-> << >>], [present |-> TRUE, value |-> << >>],
     [present |-> TRUE, value |-> CorruptSeries]}
    \cup {[present |-> TRUE, value |-> ProviderSeries(l, v)] : l \in lens, v \in variants}

ResponsesOf(lens, variants) ==
    {Response("error", "", << >>), Response("ok", "garbage", << >>)}
    \cup {Response("ok", "json", JsonObject(e, n, ts)) :
            e \in BOOLEAN, n \in BOOLEAN, ts \in TsOptions(lens, variants)}

Responses == ResponsesOf(FetchLens, FetchVariants)

\* the series lengths the provider answers with in SpecMetrics: around each
\* rolling window and each period, up to the compact size
MetricLens ==
    {1, 2, ROLL_20 - 1, ROLL_20, ROLL_20 + 1, 29, 30, 31, ROLL_50 - 1, ROLL_50,
     ROLL_50 + 1, 59, 60, 61, 89, 90, 91, CompactSize - 1, CompactSize}

MetricResponses == ResponsesOf(MetricLens, Variants)

-----------------------------------------------------------------------------
(* fetch_stock_data, lines 24-66 (the function under the decorator) *)

\* pd.to_datetime of a date key: a timestamp ordered as the calendar is
to_datetime(d) == (d[1] * 12 + d[2]) * 31 + d[3]

\* df.sort_index(): the row positions in ascending order of the index
sort_order(index) ==
    LET n == Len(index)
        rank == [m \in 1..n |-> Cardinality({j \in 1..n : index[j] < index[m]})]
    IN [r \in 1..n |-> CHOOSE m \in 1..n : rank[m] = r - 1]

\* lines 53-60 raise (ValueError) when a record does not have five values or
\* a value is not numeric
ParseRaises(time_series) ==
    \E n \in DOMAIN time_series :
        \/ Len(time_series[n][2]) # Len(BaseColumns)
        \/ \E j \in DOMAIN time_series[n][2] : ~IsNumeric(time_series[n][2][j])

\* lines 53-60: from_dict, column names, to_datetime, sort_index, to_numeric
ParseFrame(time_series) ==
    LET index == [n \in DOMAIN time_series |-> to_datetime(time_series[n][1])]
        order == sort_order(index)
        column(j) == [r \in DOMAIN order |-> ToNumber(time_series[order[r]][2][j])]
    IN [py |-> "DataFrame",
        index |-> [r \in DOMAIN order |-> index[order[r]]],
        data |-> [c \in {BaseColumns[j] : j \in DOMAIN BaseColumns} |->
                    column(CHOOSE j \in DOMAIN BaseColumns : BaseColumns[j] = c)]]

st_error(text, sym) == [level |-> "error", text |-> text, symbol |-> sym]
st_warning(text) == [level |-> "warning", text |-> text, symbol |-> << >>]

Failure(message) == [ret |-> NoneDF, msgs |-> <<message>>]

\* the value returned and the elements emitted for one provider response
fetch_stock_data(sym, resp) ==
    IF resp.transport # "ok" \/ resp.body # "json"
    THEN Failure(st_error("Error fetching data for", sym))
    ELSE LET data == resp.data IN
        IF "Error Message" \in DOMAIN data
        THEN Failure(st_error("Error fetching data for", sym))
        ELSE IF "Note" \in DOMAIN data
        THEN Failure(st_warning("API call frequency limit reached. Please wait a moment."))
        ELSE LET time_series == IF "Time Series (Daily)" \in DOMAIN data
                                THEN data["Time Series (Daily)"] ELSE << >>
             IN IF time_series = << >>
                THEN Failure(st_error("No data found for symbol:", sym))
                ELSE IF ParseRaises(time_series)
                THEN Failure(st_error("Error fetching data for", sym))
                ELSE [ret |-> ParseFrame(time_series), msgs |-> << >>]

-----------------------------------------------------------------------------
(* st.cache_data(ttl=300), line 23.  The decorator keeps, per function, one  *)
(* cache object in a process-wide registry: an entry table keyed by the      *)
(* argument, and a compute lock per key.  An entry holds the pickled return  *)
(* value and the elements the call emitted, and is served while              *)
(* now - fetched_at < ttl.  A call takes the registered cache object once,   *)
(* at its start, and works on that object to its end.  st.cache_data.clear() *)
(* empties the registry: the next call registers a new, empty cache object,  *)
(* while a call in progress keeps the object it took.                        *)

\* cache objects are numbered in the order the registry created them
Gens == 0..MaxRuns

NoEntry == [present |-> FALSE]
Entry(at, m, value, superseded) ==
    [present |-> TRUE, fetched_at |-> at, msgs |-> m,
     produced |-> value,        \* history: what the decorated call returned
     replaced |-> superseded]   \* history: an expired entry was superseded

EmptyTable == [k \in Symbols |-> NoEntry]
EmptyValues == [k \in Symbols |-> NoneDF]
FreeLocks == [k \in Symbols |-> 0]

\* a ttl taken in minutes against a clock in seconds
FreshWrongUnit(e, t) == e.present /\ (t - e.fetched_at) * 60 < TTL

\* an entry still served at the moment its age equals the ttl
FreshInclusive(e, t) == e.present /\ t - e.fetched_at <= TTL

\* the ttl test of the entry table
Fresh(e, t) == e.present /\ t - e.fetched_at < TTL

\* the lookup made before the compute lock is taken
ReadHit(g, k, t) == Fresh(cache[g][k], t)

\* the lookup repeated once the compute lock is held
LockedReadHit(g, k, t) == Fresh(cache[g][k], t)

\* a clear that only drops what has expired
ClearedExpiredOnly(table) ==
    [k \in DOMAIN table |-> IF Fresh(table[k], now) THEN table[k] ELSE NoEntry]

\* what st.cache_data.clear() leaves of the registered table
Cleared(table) == [k \in DOMAIN table |-> NoEntry]

NoRef == [space |-> "none"]
OwnRef == [space |-> "own"]
CacheRef(g, k) == [space |-> "cache", gen |-> g, key |-> k]

\* a cache that hands out the stored object itself
HitHandleShared(g, k) == CacheRef(g, k)

\* the object a cache hit hands to the caller: a fresh unpickled copy
HitHandle(g, k) == OwnRef

\* whether the value a call returned is written to the table
Cacheable(value) == TRUE

Deref(i) ==
    IF ref[i].space = "cache" THEN stored[ref[i].gen][ref[i].key]
    ELSE IF ref[i].space = "own" THEN frames[i]
    ELSE NoneDF

\* positions of a session inside the call of the cached function
InCall == {"waiting", "inflight"}

\* a cache object is alive while the registry or a call or a name refers to it
Referenced(g, c, p, h, r) ==
    \/ g = c
    \/ \E i \in Sessions : p[i] \in InCall /\ h[i] = g
    \/ \E i \in Sessions : r[i].space = "cache" /\ r[i].gen = g

\* cache objects nothing refers to are collected
Swept(objects, blank, c, p, h, r) ==
    [g \in Gens |-> IF Referenced(g, c, p, h, r) THEN objects[g] ELSE blank]

\* the results of the decorated function, tabulated per symbol and response
FetchTable ==
    [k \in Symbols |-> [r \in Responses \cup MetricResponses |-> fetch_stock_data(k, r)]]

Fetched(k, r) == FetchTable[k][r]

\* what a call for symbol k can return, over the responses of a set
Outcomes(answers) == [k \in Symbols |-> {Fetched(k, r) : r \in answers}]
SpecOutcomes == Outcomes(Responses)
MetricOutcomes == Outcomes(MetricResponses)

-----------------------------------------------------------------------------
(* The script run of a session, main() lines 160-287 *)

Init ==
    /\ API_KEY \in EnvKeys
    /\ now = 0
    /\ calls = 0
    /\ runs = 0
    /\ cur = 0
    /\ cache = [g \in Gens |-> EmptyTable]
    /\ stored = [g \in Gens |-> EmptyValues]
    /\ lock = [g \in Gens |-> FreeLocks]
    /\ pc = [i \in Sessions |-> "ready"]
    /\ handle = [i \in Sessions |-> 0]
    /\ symbol = [i \in Sessions |-> popular_stocks[1]]
    /\ time_period = [i \in Sessions |-> Unread]
    /\ via = [i \in Sessions |-> "none"]
    /\ ref = [i \in Sessions |-> NoRef]
    /\ frames = [i \in Sessions |-> NoneDF]
    /\ msgs = [i \in Sessions |-> << >>]
    /\ metrics = [i \in Sessions |-> << >>]
    /\ held = [i \in Sessions |-> NoneDF]
    /\ clearedFresh = {}

\* a cache hit: the stored value is unpickled for the caller and the stored
\* elements are replayed
ServeFromCache(i, g, k, how) ==
    /\ pc' = [pc EXCEPT ![i] = "fetched"]
    /\ handle' = [handle EXCEPT ![i] = 0]
    /\ via' = [via EXCEPT ![i] = how]
    /\ frames' = [frames EXCEPT ![i] = stored[g][k]]
    /\ ref' = [ref EXCEPT ![i] = HitHandle(g, k)]
    /\ msgs' = [msgs EXCEPT ![i] = cache[g][k].msgs]
    /\ held' = [held EXCEPT ![i] = stored[g][k]]

\* lines 198-210 with the symbol selected: the key check, then the call of
\* the cached function up to its first lookup in the registered cache object
Script(i, sym) ==
    /\ symbol' = [symbol EXCEPT ![i] = sym]
    /\ time_period' = [time_period EXCEPT ![i] = Unread]
    /\ metrics' = [metrics EXCEPT ![i] = << >>]
    /\ IF API_KEY = PLACEHOLDER_KEY
       THEN /\ pc' = [pc EXCEPT ![i] = "stopped"]
            /\ handle' = [handle EXCEPT ![i] = 0]
            /\ via' = [via EXCEPT ![i] = "none"]
            /\ frames' = [frames EXCEPT ![i] = NoneDF]
            /\ ref' = [ref EXCEPT ![i] = NoRef]
            /\ msgs' = [msgs EXCEPT ![i] = << >>]
            /\ held' = [held EXCEPT ![i] = NoneDF]
       ELSE IF ReadHit(cur, sym, now)
       THEN ServeFromCache(i, cur, sym, "hit")
       ELSE /\ pc' = [pc EXCEPT ![i] = "waiting"]
            /\ handle' = [handle EXCEPT ![i] = cur]
            /\ via' = [via EXCEPT ![i] = "none"]
            /\ frames' = [frames EXCEPT ![i] = NoneDF]
            /\ ref' = [ref EXCEPT ![i] = NoRef]
            /\ msgs' = [msgs EXCEPT ![i] = << >>]
            /\ held' = [held EXCEPT ![i] = NoneDF]
    /\ cache' = Swept(cache, EmptyTable, cur, pc', handle', ref')
    /\ stored' = Swept(stored, EmptyValues, cur, pc', handle', ref')
    /\ UNCHANGED <<API_KEY, now, calls, cur, lock, clearedFresh>>

BetweenRuns == {"ready", "done", "stopped"}

\* a widget interaction starts a run of the script
Run(i) ==
    /\ pc[i] \in BetweenRuns
    /\ runs < MaxRuns
    /\ runs' = runs + 1
    /\ \E sym \in Symbols : Script(i, sym)

\* lines 194-196: the Refresh button clears every cache and asks for a rerun
Refresh(i) ==
    /\ pc[i] \in BetweenRuns
    /\ runs < MaxRuns
    /\ runs' = runs + 1
    /\ \E sym \in Symbols : symbol' = [symbol EXCEPT ![i] = sym]
    /\ time_period' = [time_period EXCEPT ![i] = Unread]
    /\ pc' = [pc EXCEPT ![i] = "rerun"]
    /\ via' = [via EXCEPT ![i] = "none"]
    /\ frames' = [frames EXCEPT ![i] = NoneDF]
    /\ ref' = [ref EXCEPT ![i] = NoRef]
    /\ msgs' = [msgs EXCEPT ![i] = << >>]
    /\ metrics' = [metrics EXCEPT ![i] = << >>]
    /\ held' = [held EXCEPT ![i] = NoneDF]
    /\ cur' = cur + 1
    /\ LET left == Cleared(cache[cur]) IN
        /\ cache' = Swept([cache EXCEPT ![cur'] = left],
                          EmptyTable, cur', pc', handle, ref')
        /\ stored' = Swept([stored EXCEPT ![cur'] =
                               [k \in Symbols |->
                                   IF left[k].present THEN stored[cur][k] ELSE NoneDF]],
                           EmptyValues, cur', pc', handle, ref')
        /\ clearedFresh' = {k \in Symbols : Fresh(cache[cur][k], now) /\ ~left[k].present}
    /\ UNCHANGED <<API_KEY, now, calls, lock, handle>>

\* st.rerun(): the script runs again with the same widget values
Rerun(i) ==
    /\ pc[i] = "rerun"
    /\ UNCHANGED runs
    /\ Script(i, symbol[i])

\* the cache miss path: take the key's compute lock of the call's cache
\* object, look again, and only then call the function, whose line 35 issues
\* the request
Acquire(i) ==
    LET k == symbol[i]
        g == handle[i]
    IN
    /\ pc[i] = "waiting"
    /\ lock[g][k] = 0
    /\ IF LockedReadHit(g, k, now)
       THEN /\ ServeFromCache(i, g, k, "joined")
            /\ cache' = Swept(cache, EmptyTable, cur, pc', handle', ref')
            /\ stored' = Swept(stored, EmptyValues, cur, pc', handle', ref')
            /\ UNCHANGED <<calls, lock>>
       ELSE /\ calls' = calls + 1
            /\ lock' = [lock EXCEPT ![g][k] = i]
            /\ pc' = [pc EXCEPT ![i] = "inflight"]
            /\ UNCHANGED <<via, frames, ref, msgs, held, handle, cache, stored>>
    /\ UNCHANGED <<API_KEY, now, runs, cur, symbol, time_period, metrics, clearedFresh>>

\* the response arrives: lines 36-66 run, the decorator writes the result to
\* the call's cache object (expired entries are dropped by the write) and
\* releases the lock
RespondWith(i, outcomes) ==
    LET k == symbol[i]
        g == handle[i]
    IN
    /\ pc[i] = "inflight"
    /\ ref' = [ref EXCEPT ![i] = OwnRef]
    /\ lock' = [lock EXCEPT ![g][k] = 0]
    /\ pc' = [pc EXCEPT ![i] = "fetched"]
    /\ handle' = [handle EXCEPT ![i] = 0]
    /\ via' = [via EXCEPT ![i] = "computed"]
    /\ \E res \in outcomes[k] :
        LET keep(x) == Fresh(cache[g][x], now)
            written == [x \in Symbols |->
                           IF x = k
                           THEN Entry(now, res.msgs, res.ret,
                                      cache[g][k].present /\ ~Fresh(cache[g][k], now))
                           ELSE IF keep(x) THEN cache[g][x] ELSE NoEntry]
            values == [x \in Symbols |->
                           IF x = k THEN res.ret
                           ELSE IF keep(x) THEN stored[g][x] ELSE NoneDF]
        IN
        /\ IF Cacheable(res.ret)
           THEN /\ cache' = Swept([cache EXCEPT ![g] = written],
                                  EmptyTable, cur, pc', handle', ref')
                /\ stored' = Swept([stored EXCEPT ![g] = values],
                                   EmptyValues, cur, pc', handle', ref')
                /\ clearedFresh' = IF g = cur THEN clearedFresh \ {k} ELSE clearedFresh
           ELSE /\ cache' = Swept(cache, EmptyTable, cur, pc', handle', ref')
                /\ stored' = Swept(stored, EmptyValues, cur, pc', handle', ref')
                /\ UNCHANGED clearedFresh
        /\ frames' = [frames EXCEPT ![i] = res.ret]
        /\ held' = [held EXCEPT ![i] = res.ret]
        /\ msgs' = [msgs EXCEPT ![i] = res.msgs]
    /\ UNCHANGED <<API_KEY, now, calls, runs, cur, symbol, time_period, metrics>>

Respond(i) == RespondWith(i, SpecOutcomes)

\* int(time_period.split()[0])
Days(period) == ToNumber(period[1])

\* lines 212-216 and 286-287: the check of the result and the trim to the
\* selected period, which rebinds df to the new frame df.tail returns
WindowOver(i, periods) ==
    /\ pc[i] = "fetched"
    /\ LET df == Deref(i) IN
       IF IsFrame(df) /\ ~empty(df)
       THEN /\ \E p \in periods :
                 /\ time_period' = [time_period EXCEPT ![i] = time_period_options[p]]
                 /\ IF time_period'[i] # AllAvailable
                    THEN /\ frames' = [frames EXCEPT ![i] = tail(df, Days(time_period'[i]))]
                         /\ ref' = [ref EXCEPT ![i] = OwnRef]
                    ELSE UNCHANGED <<frames, ref>>
            /\ pc' = [pc EXCEPT ![i] = "windowed"]
       ELSE /\ pc' = [pc EXCEPT ![i] = "done"]
            /\ UNCHANGED <<frames, ref, time_period>>
    /\ UNCHANGED <<API_KEY, now, calls, runs, cur, cache, stored, lock, handle, symbol,
                   via, msgs, metrics, held, clearedFresh>>

SelectWindow(i) == WindowOver(i, PeriodChoices)

\* line 219: calculate_metrics(df) assigns into the object df is bound to
Compute(i) ==
    /\ pc[i] = "windowed"
    /\ LET out == calculate_metrics(Deref(i)) IN
        /\ metrics' = [metrics EXCEPT ![i] = out.metrics]
        /\ IF ref[i].space = "cache"
           THEN /\ stored' = [stored EXCEPT ![ref[i].gen][ref[i].key] = out.df]
                /\ UNCHANGED frames
           ELSE /\ frames' = [frames EXCEPT ![i] = out.df]
                /\ UNCHANGED stored
    /\ pc' = [pc EXCEPT ![i] = "done"]
    /\ UNCHANGED <<API_KEY, now, calls, runs, cur, cache, lock, handle, symbol, time_period,
                   via, ref, msgs, held, clearedFresh>>

\* time passes
Tick ==
    /\ now + TickStep <= MaxTime
    /\ now' = now + TickStep
    /\ UNCHANGED <<API_KEY, calls, runs, cur, cache, stored, lock, pc, handle, symbol,
                   time_period, via, ref, frames, msgs, metrics, held, clearedFresh>>

Next ==
    \/ \E i \in Sessions : Run(i)
    \/ \E i \in Sessions : Refresh(i)
    \/ \E i \in Sessions : Rerun(i)
    \/ \E i \in Sessions : Acquire(i)
    \/ \E i \in Sessions : Respond(i)
    \/ \E i \in Sessions : SelectWindow(i)
    \/ \E i \in Sessions : Compute(i)
    \/ Tick

Spec == Init /\ [][Next]_vars

-----------------------------------------------------------------------------
(* The fetch-and-metrics pipeline on its own: one request is in flight, the   *)
(* provider answers with a series of any length up to the compact size, and   *)
(* the script goes on to window the frame and compute the metrics.            *)

InitMetrics ==
    /\ API_KEY \in EnvKeys \ {PLACEHOLDER_KEY}
    /\ now = 0
    /\ calls = 1
    /\ runs = 1
    /\ cur = 0
    /\ cache = [g \in Gens |-> EmptyTable]
    /\ stored = [g \in Gens |-> EmptyValues]
    /\ \E k \in Symbols :
        /\ symbol = [i \in Sessions |-> k]
        /\ lock = [g \in Gens |-> [x \in Symbols |-> IF g = 0 /\ x = k THEN 1 ELSE 0]]
    /\ pc = [i \in Sessions |-> IF i = 1 THEN "inflight" ELSE "ready"]
    /\ handle = [i \in Sessions |-> 0]
    /\ time_period = [i \in Sessions |-> Unread]
    /\ via = [i \in Sessions |-> "none"]
    /\ ref = [i \in Sessions |-> NoRef]
    /\ frames = [i \in Sessions |-> NoneDF]
    /\ msgs = [i \in Sessions |-> << >>]
    /\ metrics = [i \in Sessions |-> << >>]
    /\ held = [i \in Sessions |-> NoneDF]
    /\ clearedFresh = {}

NextMetrics ==
    \E i \in Sessions :
        \/ RespondWith(i, MetricOutcomes)
        \/ WindowOver(i, DOMAIN time_period_options)
        \/ Compute(i)

SpecMetrics == InitMetrics /\ [][NextMetrics]_vars

-----------------------------------------------------------------------------
(* Properties *)

BaseSet == {BaseColumns[j] : j \in DOMAIN BaseColumns}

\* steps of a session's call of the cached function
FirstLookup(i) == pc[i] \in BetweenRuns \cup {"rerun"} /\ pc'[i] \in {"fetched", "waiting"}
LockedLookup(i) == pc[i] = "waiting" /\ pc'[i] \in {"fetched", "inflight"}
Returned(i) == pc[i] = "inflight" /\ pc'[i] = "fetched"

\* the cache object a lookup step of session i reads
Taken(i) == IF pc[i] = "waiting" THEN handle[i] ELSE cur

InFlight(k) == {i \in Sessions : pc[i] = "inflight" /\ symbol[i] = k}

\* C1: a call that looks a symbol up while the table holds an entry for it
\* stored less than ttl ago (so with no clear since it was stored) issues no
\* request, leaves the registered table alone and returns the value and the
\* elements stored.
C1_ServedWithinTtl ==
    [][\A i \in Sessions :
          LET k == symbol'[i]
              g == Taken(i)
          IN
          ( /\ FirstLookup(i) \/ LockedLookup(i)
            /\ cache[g][k].present
            /\ now - cache[g][k].fetched_at < TTL )
          => /\ calls' = calls
             /\ cache'[cur] = cache[cur]
             /\ pc'[i] = "fetched"
             /\ Deref(i)' = cache[g][k].produced
             /\ msgs'[i] = cache[g][k].msgs]_vars

\* a series served from the cache at a later time, the request counter at 1
C1_Witness ==
    \E i \in Sessions :
        /\ pc[i] = "fetched" /\ via[i] = "hit"
        /\ IsFrame(held[i])
        /\ cache[cur][symbol[i]].present
        /\ now > cache[cur][symbol[i]].fetched_at
        /\ calls = 1

\* C2 (as claimed): a fetch that fails leaves the entry table unchanged.
C2_FailureLeavesTable ==
    [][\A i \in Sessions :
          (Returned(i) /\ IsNone(held'[i]) /\ handle[i] = cur)
              => cache'[cur] = cache[cur]]_vars

\* C3 (as claimed): under every interleaving at most one request is in flight
\* for a symbol.
C3_SingleFlight ==
    \A k \in Symbols : Cardinality(InFlight(k)) <= 1

\* C4: a call that finds an entry whose age has reached ttl is not served from
\* it; under the lock it issues exactly one request; and, the registry not
\* cleared since the call began, a fetch that succeeds stores the new snapshot
\* with the current time, which is then valid.
C4_RefetchAfterTtl ==
    [][\A i \in Sessions :
          LET k == symbol'[i]
              g == Taken(i)
              expired == cache[g][k].present /\ now - cache[g][k].fetched_at >= TTL
          IN
          /\ (FirstLookup(i) /\ expired)
                => pc'[i] = "waiting" /\ calls' = calls
          /\ (LockedLookup(i) /\ expired)
                => pc'[i] = "inflight" /\ calls' = calls + 1
          /\ (Returned(i) /\ IsFrame(held'[i]) /\ handle[i] = cur)
                => /\ cache'[cur][k].present
                   /\ cache'[cur][k].fetched_at = now
                   /\ stored'[cur][k] = held'[i]
                   /\ now - cache'[cur][k].fetched_at < TTL]_vars

\* an expired entry superseded by the snapshot of a second request
C4_Witness ==
    \E i \in Sessions :
        /\ pc[i] = "fetched" /\ via[i] = "computed"
        /\ IsFrame(held[i])
        /\ cache[cur][symbol[i]].present
        /\ cache[cur][symbol[i]].replaced
        /\ cache[cur][symbol[i]].fetched_at >= TTL
        /\ stored[cur][symbol[i]] = held[i]
        /\ calls = 2

\* C5: the Refresh step leaves the registry with no entry and no held lock
\* for any symbol, whatever the age of what it dropped, and a call that finds
\* no entry for its symbol is not served: under the lock it issues a request.
C5_ClearForcesRefetch ==
    [][\A i \in Sessions :
          LET k == symbol'[i]
              g == Taken(i)
          IN
          /\ (pc[i] \in BetweenRuns /\ pc'[i] = "rerun")
                => \A x \in Symbols : ~cache'[cur'][x].present /\ lock'[cur'][x] = 0
          /\ (FirstLookup(i) /\ ~cache[g][k].present)
                => pc'[i] = "waiting"
          /\ (LockedLookup(i) /\ ~cache[g][k].present)
                => pc'[i] = "inflight" /\ calls' = calls + 1]_vars

\* a request in flight for a symbol whose unexpired entry the clear dropped
C5_Witness ==
    \E i \in Sessions :
        /\ pc[i] = "inflight"
        /\ handle[i] = cur
        /\ symbol[i] \in clearedFresh
        /\ ~cache[cur][symbol[i]].present

\* C6 (as claimed): with the key unset or the placeholder, no request is
\* ever issued.
C6_NoFetchWithoutKey ==
    API_KEY \in {KeyUnset, PLACEHOLDER_KEY} => calls = 0

\* the failure kind the classification gives a response, in priority order
ClaimKind(r) ==
    IF r.transport # "ok" THEN "NetworkError"
    ELSE IF r.body # "json" THEN "MalformedResponse"
    ELSE IF "Error Message" \in DOMAIN r.data THEN "InvalidSymbol"
    ELSE IF "Note" \in DOMAIN r.data THEN "RateLimited"
    ELSE IF "Time Series (Daily)" \notin DOMAIN r.data THEN "EmptyResult"
    ELSE IF r.data["Time Series (Daily)"] = << >> THEN "EmptyResult"
    ELSE IF ParseRaises(r.data["Time Series (Daily)"]) THEN "MalformedResponse"
    ELSE "Series"

\* C7 (as claimed): whatever answers an in-flight request, a series is
\* returned exactly for the kind Series, and responses of different kinds
\* give different outcomes.
C7_DistinctOutcomes ==
    \A i \in Sessions :
        pc[i] = "inflight" =>
            \A r1, r2 \in Responses :
                LET o1 == Fetched(symbol[i], r1)
                    o2 == Fetched(symbol[i], r2)
                IN /\ (ClaimKind(r1) = "Series") <=> IsFrame(o1.ret)
                   /\ ClaimKind(r1) # ClaimKind(r2) => o1 # o2

\* C8 (as claimed): the call of calculate_metrics leaves the frame it was
\* given as it was.
C8_InputUnchanged ==
    [][\A i \in Sessions :
          (pc[i] = "windowed" /\ pc'[i] = "done") => Deref(i)' = Deref(i)]_vars

\* the bars the period keeps: the last n when there are more than n, else all
ClaimWindow(closes, period) ==
    LET n == CASE period = time_period_options[1] -> 30
               [] period = time_period_options[2] -> 60
               [] period = time_period_options[3] -> 90
               [] OTHER -> Len(closes)
    IN IF Len(closes) > n
       THEN [j \in 1..n |-> closes[Len(closes) - n + j]]
       ELSE closes

\* absent below w bars, else the mean of the last w
ClaimAverage(closes, w) ==
    IF Len(closes) < w THEN NoneNum
    ELSE <<SumSeq([j \in 1..w |-> closes[Len(closes) - w + j]]), w>>

\* C9: once the metrics are computed, ma_20 (ma_50) is absent exactly when
\* the windowed series has fewer than 20 (50) bars and is otherwise the mean
\* of the Close of its last 20 (50) bars; ma_50 is absent for the 30-day
\* period whatever was fetched.
C9_MovingAverages ==
    \A i \in Sessions :
        (pc[i] = "done" /\ IsFrame(held[i])) =>
            LET windowed == ClaimWindow(held[i].data["Close"], time_period[i]) IN
            /\ metrics[i].ma_20 = ClaimAverage(windowed, 20)
            /\ metrics[i].ma_50 = ClaimAverage(windowed, 50)
            /\ (metrics[i].ma_20 = NoneNum) <=> (Len(windowed) < 20)
            /\ (metrics[i].ma_50 = NoneNum) <=> (Len(windowed) < 50)
            /\ time_period[i] = time_period_options[1] => metrics[i].ma_50 = NoneNum

\* more than 50 bars fetched, the 30-day period: ma_20 present, ma_50 absent
C9_Witness ==
    \E i \in Sessions :
        /\ pc[i] = "done" /\ IsFrame(held[i])
        /\ Rows(held[i]) > 50
        /\ time_period[i] = time_period_options[1]
        /\ metrics[i].ma_20 # NoneNum
        /\ metrics[i].ma_50 = NoneNum

\* C10: the value an entry holds is the value its fetch produced, with the
\* five fetched columns only, and the value a caller was handed stays what
\* it was handed while the caller holds it.
C10_SnapshotIsolated ==
    /\ \A g \in Gens, k \in Symbols :
          cache[g][k].present =>
              /\ stored[g][k] = cache[g][k].produced
              /\ IsFrame(stored[g][k]) => DOMAIN stored[g][k].data = BaseSet
    /\ \A i \in Sessions :
          pc[i] = "fetched" =>
              /\ Deref(i) = held[i]
              /\ IsFrame(held[i]) => DOMAIN held[i].data = BaseSet

\* a run that was served from the cache, took 'All Available' and computed
\* the indicators into its frame, the entry still holding the fetched columns
C10_Witness ==
    \E i \in Sessions :
        /\ pc[i] = "done" /\ via[i] = "hit"
        /\ time_period[i] = AllAvailable
        /\ IsFrame(frames[i])
        /\ "MA_20" \in DOMAIN frames[i].data
        /\ cache[cur][symbol[i]].present
        /\ IsFrame(stored[cur][symbol[i]])
        /\ DOMAIN stored[cur][symbol[i]].data = BaseSet

====
